---- MODULE Spec2Model ----
(***************************************************************************)
(* A model of crates/uv/src/commands/project/sync.rs: the `sync` command   *)
(* and the reconciliation pipeline `do_sync` that validates a lock         *)
(* against an environment, builds and filters the resolution, selects the  *)
(* build-isolation and hash policies and hands everything to the           *)
(* installer.                                                              *)
(*                                                                         *)
(* One action per statement group of the source, in program order; `pc`    *)
(* is the position of the single task that runs `sync`.  Collaborators     *)
(* that live in other crates (the lock's graph walk, the install scope     *)
(* filter, the hash strategy, the installer) are modelled at their         *)
(* interface.                                                              *)
(***************************************************************************)
EXTENDS Integers, Sequences, FiniteSets, TLC

VARIABLES
    pc,               \* position of the task inside sync / do_sync
    project,          \* VirtualProject returned by discovery
    venv,             \* PythonEnvironment: interpreter version and markers
    installed,        \* the packages present in the environment's site
    lock_result,      \* how do_safe_lock ended
    lock,             \* Lock: requires_python, supported_environments, hashes
    dev,              \* sync's `dev` argument
    extras,           \* sync's `extras` argument
    install_options,  \* sync's `install_options` argument
    settings,         \* the fields of InstallerSettingsRef that do_sync reads
    state,            \* SharedState
    built,            \* the value of lock.to_resolution(..)
    virtual_filtered, \* the value of apply_no_virtual_project(..)
    resolution,       \* the current binding of `resolution` in do_sync
    build_isolation,  \* the selected BuildIsolation variant
    hasher,           \* the HashStrategy derived from the resolution
    credentials,      \* the process-wide credentials cache
    net,              \* the phases that have issued network calls
    trace,            \* the statements executed so far, in order
    handed,           \* what pip::operations::install was called with
    do_sync_result,   \* what do_sync returned
    result,           \* what sync returned
    dev_groups,       \* the rebinding of `dev` in do_sync: the groups to include
    flat_index,       \* the FlatIndex built from the --find-links entries
    previous          \* the outcome of an earlier invocation on the same inputs

vars == << pc, project, venv, installed, lock_result, lock, dev, extras, install_options,
           settings, state, built, virtual_filtered, resolution,
           build_isolation, hasher, credentials, net, trace, handed,
           do_sync_result, result, dev_groups, flat_index, previous >>

---------------------------------------------------------------------------
(* Bounds of the model *)

\* the largest number of supported-environment markers a lock declares
MaxEnvs == 2
\* the largest number of lock entries that carry no hash
MaxNoHash == 1

---------------------------------------------------------------------------
(* The values the inputs are drawn from *)

\* interpreter versions, as the minor number of 3.x
PythonVersions == {8, 10}

\* requires-python: absent, or the range >=3.9,<3.12
NoRequiresPython == [some |-> FALSE, lo |-> 0, hi |-> 0]
RequiresPythonChoices == {NoRequiresPython, [some |-> TRUE, lo |-> 9, hi |-> 12]}

Platforms == {"linux", "darwin", "win32"}

\* a marker expression `sys_platform == '<value>'`
MarkerTrees == [key : {"sys_platform"}, op : {"=="}, value : {"linux", "darwin"}]

EnvironmentChoices == {E \in SUBSET MarkerTrees : Cardinality(E) <= MaxEnvs}

\* the workspace: root project `a` and a second member `b`
Members == {"a", "b"}
Root == "a"

\* which members are packages; the root project is one
IsPackageChoices == {ip \in [Members -> BOOLEAN] : ip[Root]}

\* the packages pinned by the lock
LockPackages == {"a", "b", "c", "d"}

\* the lock entries that may carry no hash: the workspace member `b` and
\* the registry package `c`
Unhashable == {"b", "c"}
NoHashChoices == {S \in SUBSET Unhashable : Cardinality(S) <= MaxNoHash}

\* the dependency edges of the lock graph: runtime edges and an edge of the
\* dev-dependencies group
DEV_DEPENDENCIES == "dev"
LockEdges ==
    { [from |-> "a", to |-> "b", kind |-> "run",   label |-> ""],
      [from |-> "a", to |-> "c", kind |-> "run",   label |-> ""],
      [from |-> "a", to |-> "d", kind |-> "group", label |-> DEV_DEPENDENCIES] }

\* ExtrasSpecification::None
ExtrasChoices == {{}}

\* install scope options: everything, only the named packages, or
\* everything except the named packages
InstallOptionsChoices ==
    {[kind |-> "all", pkgs |-> {}]}
    \cup {[kind |-> "only", pkgs |-> {"b"}], [kind |-> "except", pkgs |-> {"c"}]}

\* the index locations: one URL, which carries credentials
IndexUrls == {"https://user:pw@index"}

SettingsChoices ==
    [ no_build_isolation : BOOLEAN,
      no_build_isolation_package : {{}, {"c"}},
      index_urls : {IndexUrls},
      bound : {TRUE} ]

InitialSite == {"c", "z"}

\* placeholders for values not yet bound
NoProject == [kind |-> "none", name |-> "", is_package |-> [m \in Members |-> TRUE]]
NoVenv == [python_version |-> 0, markers |-> [sys_platform |-> ""]]
NoLock == [requires_python |-> NoRequiresPython, environments |-> {}, nohash |-> {}]
NoInstallOptions == [kind |-> "unset", pkgs |-> {}]
NoSettings == [no_build_isolation |-> FALSE, no_build_isolation_package |-> {},
               index_urls |-> {}, bound |-> FALSE]
NoResolution == << >>
NoPolicy == [variant |-> "none", venv |-> NoVenv, packages |-> {}]
NoHasher == [ok |-> FALSE, mode |-> "none", packages |-> {}]
NoState == [created |-> FALSE, index |-> {}, git |-> {}, in_flight |-> {}]
NoHanded == [called |-> FALSE, resolution |-> NoResolution, hasher |-> NoHasher,
             build_isolation |-> NoPolicy]
NoResult == [status |-> "running", exit |-> "", kind |-> "", payload |-> << >>]
NoFlatIndex == [built |-> FALSE, hasher |-> NoHasher]
NoPrevious == [ran |-> FALSE, resolution |-> NoResolution]

---------------------------------------------------------------------------
(* Results *)

OkExit(e) == [status |-> "Ok", exit |-> e, kind |-> "", payload |-> << >>]
ErrResult(k, p) == [status |-> "Err", exit |-> "", kind |-> k, payload |-> p]

---------------------------------------------------------------------------
(* Pure functions *)

\* RequiresPython::contains: the version lies in the declared range
contains(requires_python, version) ==
    requires_python.lo <= version /\ version < requires_python.hi

\* MarkerTree::evaluate against the interpreter's marker environment
evaluate(env, markers) ==
    IF env.op = "==" THEN markers[env.key] = env.value
                     ELSE markers[env.key] # env.value

\* MarkerTree::contents, formatted as in the error message
contents(env) == << env.key, env.op, env.value >>

\* a variant of PythonIncompatible that fails the versions inside the range
PythonIncompatible_Negated(l, v) ==
    /\ l.requires_python.some
    /\ contains(l.requires_python, v.python_version)

\* do_sync, lines 162-163: the lock declares a requirement and the
\* interpreter's version is outside it
PythonIncompatible(l, v) ==
    /\ l.requires_python.some
    /\ ~ contains(l.requires_python, v.python_version)

\* a variant of PlatformIncompatible that wants every environment to hold
PlatformIncompatible_All(l, markers) ==
    /\ l.environments # {}
    /\ ~ \A env \in l.environments : evaluate(env, markers)

\* do_sync, lines 176-177: the lock declares environments and none of them
\* evaluates to true against the interpreter's markers
PlatformIncompatible(l, markers) ==
    /\ l.environments # {}
    /\ ~ \E env \in l.environments : evaluate(env, markers)

\* a variant of DevGroups that includes the dev-dependencies group always
DevGroups_Always(d) == << DEV_DEPENDENCIES >>

\* do_sync, lines 189-193: the groups handed to the resolution builder
DevGroups(d) == IF d THEN << DEV_DEPENDENCIES >> ELSE << >>

SeqRange(s) == {s[i] : i \in 1..Len(s)}

\* the lock edges followed under the requested extras and groups
Followed(edge, ex, groups) ==
    \/ edge.kind = "run"
    \/ edge.kind = "group" /\ edge.label \in SeqRange(groups)
    \/ edge.kind = "extra" /\ edge.label \in ex

RECURSIVE Reachable(_, _, _)
Reachable(seen, ex, groups) ==
    LET next == seen \cup {e.to : e \in {x \in LockEdges :
                                x.from \in seen /\ Followed(x, ex, groups)}}
    IN  IF next = seen THEN seen ELSE Reachable(next, ex, groups)

\* the roots of the graph walk: the project itself, or every member of a
\* workspace without a root project
Roots(p) == IF p.kind = "Project" THEN {p.name} ELSE Members

\* Lock::to_resolution: the pinned distribution of every package reachable
\* from the roots under the requested extras and groups
to_resolution(l, p, markers, ex, groups) ==
    [n \in Reachable(Roots(p), ex, groups) |->
        [name |-> n, version |-> 1, hashed |-> n \notin l.nohash]]

\* Resolution::filter, the predicate given as the set of names it accepts
Filter(res, keep) == [n \in {m \in DOMAIN res : m \in keep} |-> res[n]]

\* apply_no_virtual_project, lines 309-322
virtual_members(p) == {name \in Members : ~ p.is_package[name]}

\* a variant of apply_no_virtual_project that keeps the virtual members
apply_no_virtual_project_Inverted(res, p) ==
    IF p.kind # "Project"
    THEN res
    ELSE Filter(res, {n \in DOMAIN res : n \in virtual_members(p)})

\* a variant of apply_no_virtual_project that filters nothing
apply_no_virtual_project_Noop(res, p) == res

\* a variant of apply_no_virtual_project without the early return for a
\* workspace that is not a Project
apply_no_virtual_project_Always(res, p) ==
    Filter(res, {n \in DOMAIN res : n \notin virtual_members(p)})

\* a variant of apply_no_virtual_project that also drops what the site
\* already holds
apply_no_virtual_project_SkipInstalled(res, p) ==
    IF p.kind # "Project"
    THEN Filter(res, {n \in DOMAIN res : n \notin installed})
    ELSE Filter(res, {n \in DOMAIN res :
                        n \notin virtual_members(p) /\ n \notin installed})

\* apply_no_virtual_project, lines 300-326
apply_no_virtual_project(res, p) ==
    IF p.kind # "Project"
    THEN res
    ELSE Filter(res, {n \in DOMAIN res : n \notin virtual_members(p)})

\* InstallOptions::filter_resolution: the scope filter
filter_resolution(opts, res, p) ==
    LET InScope(n) == CASE opts.kind = "only"   -> n \in opts.pkgs
                        [] opts.kind = "except" -> n \notin opts.pkgs
                        [] OTHER                -> TRUE
    IN  Filter(res, {n \in DOMAIN res : InScope(n)})

\* a variant of BuildIsolation that looks at the package set first
BuildIsolation_PackagesFirst(no_build_isolation, no_build_isolation_package, v) ==
    IF no_build_isolation_package # {}
    THEN [variant |-> "SharedPackage", venv |-> v,
          packages |-> no_build_isolation_package]
    ELSE IF no_build_isolation
         THEN [variant |-> "Shared", venv |-> v, packages |-> {}]
         ELSE [variant |-> "Isolated", venv |-> NoVenv, packages |-> {}]

\* do_sync, lines 225-231
BuildIsolation(no_build_isolation, no_build_isolation_package, v) ==
    IF no_build_isolation
    THEN [variant |-> "Shared", venv |-> v, packages |-> {}]
    ELSE IF no_build_isolation_package = {}
         THEN [variant |-> "Isolated", venv |-> NoVenv, packages |-> {}]
         ELSE [variant |-> "SharedPackage", venv |-> v,
               packages |-> no_build_isolation_package]

\* the entries of a resolution that carry no hash
MissingHashes(res) == {n \in DOMAIN res : ~ res[n].hashed}

\* HashStrategy::from_resolution: in Verify mode every entry must carry a
\* hash; the strategy covers exactly the entries of the resolution
from_resolution(res, mode) ==
    IF mode = "Verify" /\ MissingHashes(res) # {}
    THEN [ok |-> FALSE, mode |-> mode, packages |-> MissingHashes(res)]
    ELSE [ok |-> TRUE, mode |-> mode, packages |-> DOMAIN res]

---------------------------------------------------------------------------
(* Control *)

\* a variant of Order that checks the platform before the interpreter
Order_PlatformFirst ==
    << "discover", "get_or_init_environment", "do_safe_lock", "shared_state",
       "supported_environments", "requires_python", "tags", "to_resolution",
       "apply_no_virtual_project", "filter_resolution", "store_credentials",
       "build_isolation", "hasher", "flat_index", "site_packages", "install",
       "return" >>

\* a variant of Order that fetches the flat indexes before it validates
Order_FlatIndexFirst ==
    << "discover", "get_or_init_environment", "do_safe_lock", "shared_state",
       "flat_index", "requires_python", "supported_environments", "tags",
       "to_resolution", "apply_no_virtual_project", "filter_resolution",
       "store_credentials", "build_isolation", "hasher", "site_packages",
       "install", "return" >>

\* a variant of Order that derives the hashes before the two filters
Order_HashBeforeFilter ==
    << "discover", "get_or_init_environment", "do_safe_lock", "shared_state",
       "requires_python", "supported_environments", "tags", "to_resolution",
       "hasher", "apply_no_virtual_project", "filter_resolution",
       "store_credentials", "build_isolation", "flat_index", "site_packages",
       "install", "return" >>

\* a variant of Order that derives the hashes after the install
Order_HashAfterInstall ==
    << "discover", "get_or_init_environment", "do_safe_lock", "shared_state",
       "requires_python", "supported_environments", "tags", "to_resolution",
       "apply_no_virtual_project", "filter_resolution", "store_credentials",
       "build_isolation", "flat_index", "site_packages", "install", "hasher",
       "return" >>

\* the statements of sync (lines 48-100) and of do_sync (lines 161-296),
\* in program order
Order ==
    << "discover", "get_or_init_environment", "do_safe_lock", "shared_state",
       "requires_python", "supported_environments", "tags", "to_resolution",
       "apply_no_virtual_project", "filter_resolution", "store_credentials",
       "build_isolation", "hasher", "flat_index", "site_packages", "install",
       "return" >>

Index(name) == CHOOSE i \in 1..Len(Order) : Order[i] = name

\* the statement that follows `name` when it does not return
Successor(name) ==
    IF Index(name) = Len(Order) THEN "done" ELSE Order[Index(name) + 1]

---------------------------------------------------------------------------
(* The initial state: sync has been called and nothing has run *)

Init ==
    /\ pc = Order[1]
    /\ project = NoProject
    /\ venv = NoVenv
    /\ installed = InitialSite
    /\ lock_result = "none"
    /\ lock = NoLock
    /\ dev \in BOOLEAN
    /\ extras \in ExtrasChoices
    /\ install_options = NoInstallOptions
    /\ settings = NoSettings
    /\ state = NoState
    /\ built = NoResolution
    /\ virtual_filtered = NoResolution
    /\ resolution = NoResolution
    /\ build_isolation = NoPolicy
    /\ hasher = NoHasher
    /\ credentials = {}
    /\ net = {}
    /\ trace = << >>
    /\ handed = NoHanded
    /\ do_sync_result = NoResult
    /\ result = NoResult
    /\ dev_groups = << >>
    /\ flat_index = NoFlatIndex
    /\ previous = NoPrevious

\* the statement `name` runs and control moves to the next one
Goto(name) ==
    /\ pc = name
    /\ pc' = Successor(name)
    /\ trace' = Append(trace, name)

\* the statement `name` runs and returns
Return(name) ==
    /\ pc = name
    /\ pc' = "done"
    /\ trace' = Append(trace, name)

\* sync returns early with `r` from statement `name`
SyncReturns(name, r) ==
    /\ Return(name)
    /\ result' = r

\* a variant of DoSyncReturns that drops do_sync's error
DoSyncReturns_Swallow(name, r) ==
    /\ do_sync_result' = r
    /\ SyncReturns(name, OkExit("Success"))

\* sync, lines 103-122: do_sync returns `r` from statement `name`; `?`
\* returns its error as it is, and Ok(()) becomes Ok(ExitStatus::Success)
DoSyncReturns(name, r) ==
    /\ do_sync_result' = r
    /\ SyncReturns(name, IF r.status = "Err" THEN r ELSE OkExit("Success"))

\* a variant of DoSyncFails that notes the error and carries on
DoSyncFails_Continue(name, kind, payload) ==
    /\ do_sync_result' = ErrResult(kind, payload)
    /\ result' = result
    /\ Goto(name)

\* do_sync returns Err(kind(payload)) from statement `name`
DoSyncFails(name, kind, payload) ==
    DoSyncReturns(name, ErrResult(kind, payload))

---------------------------------------------------------------------------
(* sync, lines 30-123 *)

\* lines 48-58: identify the project
Discover ==
    /\ \E kind \in {"Project", "NonProject"}, ip \in IsPackageChoices :
          project' = [kind |-> kind,
                      name |-> IF kind = "Project" THEN Root ELSE "",
                      is_package |-> ip]
    /\ Goto("discover")
    /\ UNCHANGED << dev_groups, flat_index, previous,
                    lock_result, venv, installed, lock, dev, extras, install_options,
                    settings, state, built, virtual_filtered, resolution,
                    build_isolation, hasher, credentials, net, handed,
                    do_sync_result, result >>

\* lines 52, 54, 57: discovery fails or the package is not in the workspace
DiscoverFails ==
    /\ SyncReturns("discover", ErrResult("Discovery", << >>))
    /\ UNCHANGED << dev_groups, flat_index, previous,
                    lock_result, project, venv, installed, lock, dev, extras,
                    install_options, settings, state, built, virtual_filtered,
                    resolution, build_isolation, hasher, credentials, net,
                    handed, do_sync_result >>

\* lines 60-71: discover the virtual environment
GetOrInitEnvironment ==
    /\ \E v \in PythonVersions, p \in Platforms :
          venv' = [python_version |-> v, markers |-> [sys_platform |-> p]]
    /\ net' = net
    /\ Goto("get_or_init_environment")
    /\ UNCHANGED << dev_groups, flat_index, previous,
                    lock_result, project, installed, lock, dev, extras, install_options,
                    settings, state, built, virtual_filtered, resolution,
                    build_isolation, hasher, credentials, handed,
                    do_sync_result, result >>

\* line 71: no interpreter could be found or created
GetOrInitEnvironmentFails ==
    /\ SyncReturns("get_or_init_environment", ErrResult("Environment", << >>))
    /\ UNCHANGED << dev_groups, flat_index, previous,
                    lock_result, project, venv, installed, lock, dev, extras,
                    install_options, settings, state, built, virtual_filtered,
                    resolution, build_isolation, hasher, credentials, net,
                    handed, do_sync_result >>

\* the locking phase resolves over the network unless the lock is frozen
\* or everything it needs is cached
LockingNet(fetch) == IF fetch THEN net \cup {"do_safe_lock"} ELSE net

\* lines 73-88: do_safe_lock returns a lock
DoSafeLock ==
    /\ \E rp \in RequiresPythonChoices, envs \in EnvironmentChoices,
          nh \in NoHashChoices :
          lock' = [requires_python |-> rp, environments |-> envs, nohash |-> nh]
    /\ \E fetch \in BOOLEAN : net' = LockingNet(fetch)
    /\ lock_result' = "Ok"
    /\ Goto("do_safe_lock")
    /\ UNCHANGED << dev_groups, flat_index, previous,
                    project, venv, installed, dev, extras, install_options,
                    settings, state, built, virtual_filtered, resolution,
                    build_isolation, hasher, credentials, handed,
                    do_sync_result, result >>

\* the errors of do_safe_lock: the resolver's NoSolution, another resolver
\* error, and an error outside the resolver
LockErrors == {"NoSolution", "Resolve", "Io"}

\* a variant of MatchLockError without the NoSolution arm
MatchLockError_Generic(err) == ErrResult("Lock", << err >>)

\* lines 87-97: the match on do_safe_lock's error; NoSolution is reported
\* and becomes Ok(ExitStatus::Failure), every other error is returned
MatchLockError(err) ==
    IF err = "NoSolution"
    THEN OkExit("Failure")
    ELSE ErrResult("Lock", << err >>)

\* lines 89-96: do_safe_lock fails
DoSafeLockFails ==
    /\ \E fetch \in BOOLEAN : net' = LockingNet(fetch)
    /\ \E err \in LockErrors :
          /\ lock_result' = err
          /\ SyncReturns("do_safe_lock", MatchLockError(err))
    /\ UNCHANGED << dev_groups, flat_index, previous,
                    project, venv, installed, lock, dev, extras,
                    install_options, settings, state, built, virtual_filtered,
                    resolution, build_isolation, hasher, credentials, handed,
                    do_sync_result >>

\* lines 99-100: SharedState::default()
InitSharedState ==
    /\ state' = [created |-> TRUE, index |-> {}, git |-> {}, in_flight |-> {}]
    /\ Goto("shared_state")
    /\ UNCHANGED << dev_groups, flat_index, previous,
                    lock_result, project, venv, installed, lock, dev, extras,
                    install_options, settings, built, virtual_filtered,
                    resolution, build_isolation, hasher, credentials, net,
                    handed, do_sync_result, result >>

---------------------------------------------------------------------------
(* do_sync, lines 127-297 *)

\* lines 161-169: the interpreter is outside the lock's requires-python
RequiresPythonFails ==
    /\ PythonIncompatible(lock, venv)
    /\ DoSyncFails("requires_python", "LockedPythonIncompatibility",
                   << venv.python_version, lock.requires_python >>)
    /\ UNCHANGED << dev_groups, flat_index, previous,
                    lock_result, project, venv, installed, lock, dev, extras,
                    install_options, settings, state, built, virtual_filtered,
                    resolution, build_isolation, hasher, credentials, net,
                    handed >>

\* lines 161-169: no requirement, or the interpreter satisfies it
RequiresPythonOk ==
    /\ ~ PythonIncompatible(lock, venv)
    /\ Goto("requires_python")
    /\ UNCHANGED << dev_groups, flat_index, previous,
                    lock_result, project, venv, installed, lock, dev, extras,
                    install_options, settings, state, built, virtual_filtered,
                    resolution, build_isolation, hasher, credentials, net,
                    handed, do_sync_result, result >>

\* lines 171-186: the lock declares environments and the interpreter's
\* markers satisfy none of them
SupportedEnvironmentsFails ==
    /\ PlatformIncompatible(lock, venv.markers)
    /\ DoSyncFails("supported_environments", "LockedPlatformIncompatibility",
                   << {contents(env) : env \in lock.environments} >>)
    /\ UNCHANGED << dev_groups, flat_index, previous,
                    lock_result, project, venv, installed, lock, dev, extras,
                    install_options, settings, state, built, virtual_filtered,
                    resolution, build_isolation, hasher, credentials, net,
                    handed >>

\* lines 171-186: no environments declared, or one of them holds
SupportedEnvironmentsOk ==
    /\ ~ PlatformIncompatible(lock, venv.markers)
    /\ Goto("supported_environments")
    /\ UNCHANGED << dev_groups, flat_index, previous,
                    lock_result, project, venv, installed, lock, dev, extras,
                    install_options, settings, state, built, virtual_filtered,
                    resolution, build_isolation, hasher, credentials, net,
                    handed, do_sync_result, result >>

\* lines 188-196: the dev groups and the interpreter's tags
Tags ==
    /\ dev_groups' = DevGroups(dev)
    /\ Goto("tags")
    /\ UNCHANGED << flat_index, previous,
                    lock_result, project, venv, installed, lock, dev, extras,
                    install_options, settings, state, built, virtual_filtered,
                    resolution, build_isolation, hasher, credentials, net,
                    handed, do_sync_result, result >>

\* lines 188-196: the groups are bound and the interpreter's tags cannot be
\* determined
TagsFails ==
    /\ dev_groups' = DevGroups(dev)
    /\ DoSyncFails("tags", "Tags", << >>)
    /\ UNCHANGED << flat_index, previous,
                    lock_result, project, venv, installed, lock, dev, extras,
                    install_options, settings, state, built, virtual_filtered,
                    resolution, build_isolation, hasher, credentials, net,
                    handed >>

\* lines 198-199: read the lockfile
ToResolution ==
    /\ built' = to_resolution(lock, project, venv.markers, extras, dev_groups)
    /\ resolution' = built'
    /\ Goto("to_resolution")
    /\ UNCHANGED << dev_groups, flat_index, previous,
                    lock_result, project, venv, installed, lock, dev, extras,
                    install_options, settings, state, virtual_filtered,
                    build_isolation, hasher, credentials, net, handed,
                    do_sync_result, result >>

\* line 199: a selected package has no compatible distribution
ToResolutionFails ==
    /\ DoSyncFails("to_resolution", "Resolution", << >>)
    /\ UNCHANGED << dev_groups, flat_index, previous,
                    lock_result, project, venv, installed, lock, dev, extras,
                    install_options, settings, state, built, virtual_filtered,
                    resolution, build_isolation, hasher, credentials, net,
                    handed >>

\* lines 201-202: always skip virtual projects
ApplyNoVirtualProject ==
    /\ virtual_filtered' = apply_no_virtual_project(resolution, project)
    /\ resolution' = virtual_filtered'
    /\ Goto("apply_no_virtual_project")
    /\ UNCHANGED << dev_groups, flat_index, previous,
                    lock_result, project, venv, installed, lock, dev, extras,
                    install_options, settings, state, built, build_isolation,
                    hasher, credentials, net, handed, do_sync_result, result >>

\* lines 204-205: filter the resolution by the install options, an argument
\* of sync that is read here for the first time
FilterResolution ==
    /\ \E opts \in InstallOptionsChoices :
          /\ install_options \in {NoInstallOptions, opts}
          /\ install_options' = opts
          /\ resolution' = filter_resolution(opts, resolution, project)
    /\ Goto("filter_resolution")
    /\ UNCHANGED << dev_groups, flat_index, previous,
                    lock_result, project, venv, installed, lock, dev, extras, settings,
                    state, built, virtual_filtered, build_isolation, hasher,
                    credentials, net, handed, do_sync_result, result >>

\* lines 207-222: store the credentials of the index URLs and build the
\* registry client; the settings, an argument of sync, are read here for
\* the first time
StoreCredentials ==
    /\ \E s \in SettingsChoices :
          /\ settings \in {NoSettings, s}
          /\ settings' = s
          /\ credentials' = credentials \cup s.index_urls
    /\ Goto("store_credentials")
    /\ UNCHANGED << dev_groups, flat_index, previous,
                    lock_result, project, venv, installed, lock, dev, extras,
                    install_options, state, built, virtual_filtered,
                    resolution, build_isolation, hasher, net, handed,
                    do_sync_result, result >>

\* lines 224-231: determine whether to enable build isolation
SelectBuildIsolation ==
    /\ build_isolation' = BuildIsolation(settings.no_build_isolation,
                                         settings.no_build_isolation_package,
                                         venv)
    /\ Goto("build_isolation")
    /\ UNCHANGED << dev_groups, flat_index, previous,
                    lock_result, project, venv, installed, lock, dev, extras,
                    install_options, settings, state, built, virtual_filtered,
                    resolution, hasher, credentials, net, handed,
                    do_sync_result, result >>

\* lines 238-239: extract the hashes from the resolution
Hasher ==
    /\ from_resolution(resolution, "Verify").ok
    /\ hasher' = from_resolution(resolution, "Verify")
    /\ Goto("hasher")
    /\ UNCHANGED << dev_groups, flat_index, previous,
                    lock_result, project, venv, installed, lock, dev, extras,
                    install_options, settings, state, built, virtual_filtered,
                    resolution, build_isolation, credentials, net, handed,
                    do_sync_result, result >>

\* line 239: an entry of the resolution carries no hash
HasherFails ==
    /\ ~ from_resolution(resolution, "Verify").ok
    /\ DoSyncFails("hasher", "MissingHashes",
                   << from_resolution(resolution, "Verify").packages >>)
    /\ UNCHANGED << dev_groups, flat_index, previous,
                    lock_result, project, venv, installed, lock, dev, extras,
                    install_options, settings, state, built, virtual_filtered,
                    resolution, build_isolation, hasher, credentials, net,
                    handed >>

\* lines 241-246: fetch the flat indexes from --find-links
FlatIndex ==
    /\ net' = net \cup {"flat_index"}
    /\ flat_index' = [built |-> TRUE, hasher |-> hasher]
    /\ Goto("flat_index")
    /\ UNCHANGED << dev_groups, previous,
                    lock_result, project, venv, installed, lock, dev, extras,
                    install_options, settings, state, built, virtual_filtered,
                    resolution, build_isolation, hasher, credentials, handed,
                    do_sync_result, result >>

\* line 244: the fetch fails
FlatIndexFails ==
    /\ net' = net \cup {"flat_index"}
    /\ DoSyncFails("flat_index", "FlatIndex", << >>)
    /\ UNCHANGED << dev_groups, flat_index, previous,
                    lock_result, project, venv, installed, lock, dev, extras,
                    install_options, settings, state, built, virtual_filtered,
                    resolution, build_isolation, hasher, credentials, handed >>

\* lines 248-269: the build dispatch and the environment's site packages
SitePackages ==
    /\ Goto("site_packages")
    /\ UNCHANGED << dev_groups, flat_index, previous,
                    lock_result, project, venv, installed, lock, dev, extras,
                    install_options, settings, state, built, virtual_filtered,
                    resolution, build_isolation, hasher, credentials, net,
                    handed, do_sync_result, result >>

\* line 269: the site packages cannot be read
SitePackagesFails ==
    /\ DoSyncFails("site_packages", "SitePackages", << >>)
    /\ UNCHANGED << dev_groups, flat_index, previous,
                    lock_result, project, venv, installed, lock, dev, extras,
                    install_options, settings, state, built, virtual_filtered,
                    resolution, build_isolation, hasher, credentials, net,
                    handed >>

\* what the installer is called with, lines 272-293
Handed == [called |-> TRUE, resolution |-> resolution, hasher |-> hasher,
           build_isolation |-> build_isolation]

\* the site after a successful install: exactly the resolution, or the
\* resolution on top of what was there
Synced(modifications) ==
    IF modifications = "Exact" THEN DOMAIN resolution
                               ELSE installed \cup DOMAIN resolution

\* lines 271-294: sync the environment
Install ==
    /\ handed' = Handed
    /\ \E modifications \in {"Exact", "Sufficient"} :
          installed' = Synced(modifications)
    /\ net' = net \cup {"install"}
    /\ Goto("install")
    /\ UNCHANGED << dev_groups, flat_index, previous,
                    lock_result, project, venv, lock, dev, extras, install_options,
                    settings, state, built, virtual_filtered, resolution,
                    build_isolation, hasher, credentials, do_sync_result,
                    result >>

\* line 294: the installer fails, before or after it touched the site
InstallFails ==
    /\ handed' = Handed
    /\ installed' \in {installed, Synced("Sufficient")}
    /\ net' = net \cup {"install"}
    /\ DoSyncFails("install", "Install", << >>)
    /\ UNCHANGED << dev_groups, flat_index, previous,
                    lock_result, project, venv, lock, dev, extras, install_options,
                    settings, state, built, virtual_filtered, resolution,
                    build_isolation, hasher, credentials >>

\* line 296: Ok(())
DoSyncOk ==
    /\ DoSyncReturns("return", OkExit(""))
    /\ UNCHANGED << dev_groups, flat_index, previous,
                    lock_result, project, venv, installed, lock, dev, extras,
                    install_options, settings, state, built, virtual_filtered,
                    resolution, build_isolation, hasher, credentials, net,
                    handed >>

---------------------------------------------------------------------------

Next ==
    \/ Discover
    \/ DiscoverFails
    \/ GetOrInitEnvironment
    \/ GetOrInitEnvironmentFails
    \/ DoSafeLock
    \/ DoSafeLockFails
    \/ InitSharedState
    \/ RequiresPythonFails
    \/ RequiresPythonOk
    \/ SupportedEnvironmentsFails
    \/ SupportedEnvironmentsOk
    \/ Tags
    \/ TagsFails
    \/ ToResolution
    \/ ToResolutionFails
    \/ ApplyNoVirtualProject
    \/ FilterResolution
    \/ StoreCredentials
    \/ SelectBuildIsolation
    \/ Hasher
    \/ HasherFails
    \/ FlatIndex
    \/ FlatIndexFails
    \/ SitePackages
    \/ SitePackagesFails
    \/ Install
    \/ InstallFails
    \/ DoSyncOk

Spec == Init /\ [][Next]_vars

---------------------------------------------------------------------------
(* A second invocation of sync on the same arguments, project, environment *)
(* and lock, started in what the first invocation left behind: the site,   *)
(* the credentials cache and the network history stay as they are, and     *)
(* every local of sync and do_sync is unbound again. The second           *)
(* invocation is explored after a successful first one, for the default    *)
(* build-isolation settings and a lock without supported environments:     *)
(* none of the three is read by the statements that bind the resolution    *)

SyncAgain ==
    /\ pc = "done"
    /\ ~previous.ran
    /\ result = OkExit("Success")
    /\ ~settings.no_build_isolation
    /\ settings.no_build_isolation_package = {}
    /\ lock.environments = {}
    /\ previous' = [ran |-> TRUE, resolution |-> resolution]
    /\ pc' = "shared_state"
    /\ trace' = SubSeq(trace, 1, Index("shared_state") - 1)
    /\ state' = NoState
    /\ dev_groups' = << >>
    /\ built' = NoResolution
    /\ virtual_filtered' = NoResolution
    /\ resolution' = NoResolution
    /\ build_isolation' = NoPolicy
    /\ hasher' = NoHasher
    /\ flat_index' = NoFlatIndex
    /\ handed' = NoHanded
    /\ do_sync_result' = NoResult
    /\ result' = NoResult
    /\ UNCHANGED << project, venv, installed, lock_result, lock, dev, extras,
                    install_options, settings, credentials, net >>

NextAgain ==
    \/ Next
    \/ SyncAgain

SpecAgain == Init /\ [][NextAgain]_vars

---------------------------------------------------------------------------
(* Vocabulary of the properties *)

LockedPython == "LockedPythonIncompatibility"
LockedPlatform == "LockedPlatformIncompatibility"

\* the statement `name` has run
Ran(name) == \E i \in 1..Len(trace) : trace[i] = name

\* how many times the statement `name` has run
Times(name) == Cardinality({i \in 1..Len(trace) : trace[i] = name})

\* when `b` has run, `a` ran before it
Before(a, b) ==
    \A j \in 1..Len(trace) :
        trace[j] = b => \E i \in 1..(j - 1) : trace[i] = a

\* do_sync has returned
DoSyncReturned == do_sync_result.status # "running"

\* do_sync has returned the error `kind`
Failed(kind) == do_sync_result.status = "Err" /\ do_sync_result.kind = kind

\* the lock declares a requirement R and the interpreter's version V is
\* not in R
InterpreterOutside ==
    /\ lock.requires_python.some
    /\ ~ contains(lock.requires_python, venv.python_version)

\* the lock declares environments and none is true of the markers
NoEnvironmentHolds ==
    /\ lock.environments # {}
    /\ \A env \in lock.environments : ~ evaluate(env, venv.markers)

\* the names of the members the workspace marks as not a package
NonDistributable == {x \in Members : ~ project.is_package[x]}

\* the names the install options leave out
ScopeExcluded(n) ==
    \/ install_options.kind = "only" /\ n \notin install_options.pkgs
    \/ install_options.kind = "except" /\ n \in install_options.pkgs

\* the network calls a run can have issued before do_sync is entered
BeforeDoSync == {"do_safe_lock"}

---------------------------------------------------------------------------
(* C1 *)

\* C1: once do_sync has returned, it has failed with
\* LockedPythonIncompatibility exactly when the lock declares a requirement
\* R and the interpreter's version V is not in R; the error then carries V
\* and R; a lock without a requirement never gives this error.
C1_InterpreterIncompatibility ==
    DoSyncReturned =>
        /\ Failed(LockedPython) <=> InterpreterOutside
        /\ Failed(LockedPython) =>
              /\ do_sync_result.payload =
                    << venv.python_version, lock.requires_python >>
              /\ result = do_sync_result
        /\ ~ lock.requires_python.some => ~ Failed(LockedPython)

\* the scenario of the specification: 3.8 against >=3.9,<3.12
C1_Witness ==
    /\ Failed(LockedPython)
    /\ venv.python_version = 8
    /\ lock.requires_python = [some |-> TRUE, lo |-> 9, hi |-> 12]
    /\ do_sync_result.payload = << 8, [some |-> TRUE, lo |-> 9, hi |-> 12] >>

---------------------------------------------------------------------------
(* C2 *)

\* C2 as stated: do_sync fails with LockedPlatformIncompatibility exactly
\* when the lock's environments are non-empty and none holds.
C2_Original ==
    DoSyncReturned => (Failed(LockedPlatform) <=> NoEnvironmentHolds)

\* C2, amended: do_sync fails with LockedPlatformIncompatibility exactly
\* when the interpreter check has passed and the lock's environments are
\* non-empty and none of them holds of the markers; with no environments
\* declared the platform check passes for every marker environment.
C2_PlatformIncompatibility ==
    DoSyncReturned =>
        /\ Failed(LockedPlatform) <=> (~ InterpreterOutside /\ NoEnvironmentHolds)
        /\ lock.environments = {} => ~ Failed(LockedPlatform)
        /\ Failed(LockedPlatform) =>
              do_sync_result.payload =
                 << {<< e.key, e.op, e.value >> : e \in lock.environments} >>

\* the scenario of the specification: linux declared, darwin at hand
C2_Witness ==
    /\ Failed(LockedPlatform)
    /\ lock.environments =
          {[key |-> "sys_platform", op |-> "==", value |-> "linux"]}
    /\ venv.markers.sys_platform = "darwin"

---------------------------------------------------------------------------
(* C3 *)

\* C3: for a concrete Project, a member of the workspace that is not a
\* package is never a key of the resolution after the virtual-member
\* filter has run, and never a key of the resolution handed to the
\* installer, whatever the install options and the dev selection.
C3_VirtualMemberNeverInstalled ==
    project.kind = "Project" =>
        \A x \in NonDistributable :
            /\ x \notin DOMAIN handed.resolution
            /\ Ran("apply_no_virtual_project") => x \notin DOMAIN resolution

\* the installer has been called although the options asked for the
\* virtual member `b`, which the lock does pin
C3_Witness ==
    /\ handed.called
    /\ project.kind = "Project"
    /\ "b" \in NonDistributable
    /\ "b" \in DOMAIN built
    /\ install_options = [kind |-> "only", pkgs |-> {"b"}]

---------------------------------------------------------------------------
(* C4 *)

\* C4: the interpreter check runs before the platform check; when the
\* interpreter's version is outside the requirement the platform check
\* never runs and the failure is the interpreter error, also when no
\* declared environment holds; the platform error is only returned after
\* the interpreter check has passed.
C4_InterpreterFirst ==
    /\ Before("requires_python", "supported_environments")
    /\ (Ran("requires_python") /\ InterpreterOutside) =>
          /\ ~ Ran("supported_environments")
          /\ Failed(LockedPython)
    /\ Failed(LockedPlatform) =>
          /\ Ran("requires_python")
          /\ ~ InterpreterOutside

\* both checks would fail, and the interpreter error is the one returned
C4_Witness ==
    /\ Failed(LockedPython)
    /\ NoEnvironmentHolds
    /\ ~ Ran("supported_environments")

---------------------------------------------------------------------------
(* C5 *)

---------------------------------------------------------------------------
(* C6 *)

\* the statement that returns the error `kind`
StatementOf(kind) ==
    CASE kind = LockedPython   -> "requires_python"
      [] kind = LockedPlatform -> "supported_environments"
      [] kind = "Tags"         -> "tags"
      [] kind = "Resolution"   -> "to_resolution"
      [] kind = "MissingHashes" -> "hasher"
      [] kind = "FlatIndex"    -> "flat_index"
      [] kind = "SitePackages" -> "site_packages"
      [] OTHER                 -> "install"

\* the statements that come before the install, in the order of the source
UpToInstall ==
    << "discover", "get_or_init_environment", "do_safe_lock", "shared_state",
       "requires_python", "supported_environments", "tags", "to_resolution",
       "apply_no_virtual_project", "filter_resolution", "store_credentials",
       "build_isolation", "hasher", "flat_index", "site_packages" >>

\* C6: the installer is called only after every earlier statement has run
\* once and succeeded, and it is given the fully filtered resolution with
\* the policies derived from it; a failing statement is the last one that
\* runs, its error is what do_sync and sync return, no statement runs
\* twice, and no resolution has reached the installer when a statement
\* before the install fails.
C6_InstallOnlyAfterSuccess ==
    /\ handed.called =>
          /\ Len(trace) >= Len(UpToInstall)
          /\ SubSeq(trace, 1, Len(UpToInstall)) = UpToInstall
          /\ ~ InterpreterOutside
          /\ ~ NoEnvironmentHolds
          /\ handed.resolution = resolution
          /\ DOMAIN resolution \subseteq DOMAIN built
          /\ \A n \in DOMAIN resolution :
                ~ ScopeExcluded(n) /\ resolution[n] = built[n]
          /\ \A n \in DOMAIN resolution : resolution[n].hashed
          /\ handed.hasher.ok
          /\ handed.build_isolation.variant
                \in {"Shared", "SharedPackage", "Isolated"}
    /\ do_sync_result.status = "Err" =>
          /\ pc = "done"
          /\ trace[Len(trace)] = StatementOf(do_sync_result.kind)
          /\ result = do_sync_result
          /\ do_sync_result.kind # "Install" =>
                ~ handed.called /\ installed = InitialSite
    /\ \A i, j \in 1..Len(trace) : i < j => trace[i] # trace[j]

\* the resolution construction fails and nothing reaches the installer
C6_Witness ==
    /\ Failed("Resolution")
    /\ ~ handed.called
    /\ result = ErrResult("Resolution", << >>)

---------------------------------------------------------------------------
(* C7 *)

\* C7 as stated: a sync rejected for a missing hash leaves every piece of
\* state as it was before do_sync was called.
C7_Original ==
    Failed("MissingHashes") =>
        /\ installed = InitialSite
        /\ ~ handed.called
        /\ net \subseteq BeforeDoSync
        /\ credentials = {}

\* C7, amended: if an entry of the final resolution lacks a hash, do_sync
\* fails when it derives the hash policy: the installer is not called, the
\* environment's site and the network are untouched, and the one effect
\* of the rejected sync is that the credentials of the index URLs have
\* been stored in the credentials cache.
C7_MissingHashRejected ==
    /\ (Ran("hasher") /\ MissingHashes(resolution) # {}) =>
          /\ Failed("MissingHashes")
          /\ ~ handed.called
          /\ installed = InitialSite
          /\ net \subseteq BeforeDoSync
          /\ credentials = settings.index_urls
    /\ handed.called => MissingHashes(handed.resolution) = {}

\* a sync rejected for the missing hash of `c` after it stored credentials
C7_Witness ==
    /\ Failed("MissingHashes")
    /\ "c" \in MissingHashes(resolution)
    /\ credentials # {}

---------------------------------------------------------------------------
(* C8 *)

\* C8: the build-isolation policy is selected once, from the two settings
\* alone: Shared(venv) when no_build_isolation is set, whatever the package
\* set; else SharedPackage(venv, S) for a non-empty set S; else Isolated.
C8_BuildIsolationPolicy ==
    /\ Times("build_isolation") <= 1
    /\ ~ Ran("build_isolation") => build_isolation = NoPolicy
    /\ Ran("build_isolation") =>
          /\ settings.no_build_isolation =>
                build_isolation =
                   [variant |-> "Shared", venv |-> venv, packages |-> {}]
          /\ (~ settings.no_build_isolation
                /\ settings.no_build_isolation_package # {}) =>
                build_isolation =
                   [variant |-> "SharedPackage", venv |-> venv,
                    packages |-> settings.no_build_isolation_package]
          /\ (~ settings.no_build_isolation
                /\ settings.no_build_isolation_package = {}) =>
                build_isolation.variant = "Isolated"
          /\ handed.called => handed.build_isolation = build_isolation

\* the flag and a package set are both given, and the policy is Shared
C8_Witness ==
    /\ Ran("build_isolation")
    /\ settings.no_build_isolation
    /\ settings.no_build_isolation_package = {"c"}
    /\ build_isolation.variant = "Shared"

---------------------------------------------------------------------------
(* C9 *)

\* C9: the final resolution is the scope filter applied to the result of
\* the virtual-member filter applied to the built resolution; it is a
\* part of the virtual-filtered resolution, which is a part of the built
\* one; it holds neither a virtual member nor a scope-excluded entry,
\* while the scope filter alone keeps a virtual member it does not exclude.
C9_FilterOrder ==
    Ran("filter_resolution") =>
        /\ Before("apply_no_virtual_project", "filter_resolution")
        /\ virtual_filtered = apply_no_virtual_project(built, project)
        /\ resolution = filter_resolution(install_options, virtual_filtered, project)
        /\ DOMAIN resolution \subseteq DOMAIN virtual_filtered
        /\ DOMAIN virtual_filtered \subseteq DOMAIN built
        /\ \A n \in DOMAIN resolution : resolution[n] = built[n]
        /\ \A n \in DOMAIN built :
              (ScopeExcluded(n) \/
                 (project.kind = "Project" /\ n \in NonDistributable))
                 => n \notin DOMAIN resolution
        /\ \A n \in DOMAIN built :
              (n \in NonDistributable /\ ~ ScopeExcluded(n))
                 => n \in DOMAIN filter_resolution(install_options, built, project)

\* the built resolution holds the virtual member `b` and the excluded
\* entry `c`; the final one holds neither
C9_Witness ==
    /\ Ran("filter_resolution")
    /\ project.kind = "Project"
    /\ "b" \in NonDistributable
    /\ install_options = [kind |-> "except", pkgs |-> {"c"}]
    /\ {"b", "c"} \subseteq DOMAIN built
    /\ DOMAIN resolution \cap {"b", "c"} = {}
    /\ "b" \in DOMAIN filter_resolution(install_options, built, project)

---------------------------------------------------------------------------
(* C10 *)

\* C10: when locking fails with NoSolution, sync returns
\* Ok(ExitStatus::Failure); when it fails with any other error, sync
\* returns that error; in both cases do_sync and the installer are never
\* called; and Ok(ExitStatus::Failure) is returned for NoSolution only.
C10_NoSolutionOutcome ==
    /\ lock_result = "NoSolution" => result = OkExit("Failure")
    /\ lock_result \in LockErrors \ {"NoSolution"} =>
          result = ErrResult("Lock", << lock_result >>)
    /\ lock_result \in LockErrors =>
          /\ pc = "done"
          /\ trace[Len(trace)] = "do_safe_lock"
          /\ ~ Ran("requires_python")
          /\ do_sync_result = NoResult
          /\ ~ handed.called
          /\ installed = InitialSite
    /\ (result.status = "Ok" /\ result.exit = "Failure") =>
          lock_result = "NoSolution"
    /\ Ran("requires_python") => lock_result = "Ok"

\* locking found no solution and sync returned the failure status
C10_Witness ==
    /\ lock_result = "NoSolution"
    /\ result = OkExit("Failure")
    /\ pc = "done"

---------------------------------------------------------------------------
(* C11 *)

---------------------------------------------------------------------------
(* C12 *)

\* the packages of the lock that no walk from the roots reaches when no
\* group edge is followed
DevOnly ==
    {n \in LockPackages : n \notin Reachable(Roots(project), extras, << >>)}

\* C12: the group list bound for the resolution builder holds the
\* dev-dependencies group exactly when the dev flag is set and is empty
\* otherwise; when the flag is not set, no package that is reachable only
\* through a dev edge is in the built, the virtual-filtered or the final
\* resolution.
C12_DevGroup ==
    /\ Ran("tags") =>
          /\ (DEV_DEPENDENCIES \in SeqRange(dev_groups)) <=> dev
          /\ dev => dev_groups = << DEV_DEPENDENCIES >>
          /\ ~ dev => dev_groups = << >>
    /\ (Ran("to_resolution") /\ ~ dev) =>
          \A n \in DevOnly :
              /\ n \notin DOMAIN built
              /\ n \notin DOMAIN virtual_filtered
              /\ n \notin DOMAIN resolution

\* the dev flag is not set, the lock holds the dev-only package `d`, and
\* the final resolution is bound, not empty, and without `d`
C12_Witness ==
    /\ ~ dev
    /\ Ran("filter_resolution")
    /\ dev_groups = << >>
    /\ "d" \in DevOnly
    /\ DOMAIN resolution # {}
    /\ "d" \notin DOMAIN resolution

---------------------------------------------------------------------------
(* C13 *)

\* C13: the SharedState instance that do_sync works on exists when the
\* locking phase runs, so that do_safe_lock can work on the same instance,
\* and once do_sync has been entered after a locking phase that fetched over
\* the network, that instance holds what locking cached.
C13_Original ==
    /\ Before("shared_state", "do_safe_lock")
    /\ Ran("do_safe_lock") => state.created
    /\ (Ran("shared_state") /\ "do_safe_lock" \in net) =>
          state.index \cup state.git \cup state.in_flight # {}

---------------------------------------------------------------------------
(* C14 *)

---------------------------------------------------------------------------
(* C15 *)

\* the positions of a run at which the installer has not been called yet
PrecedesDispatching == SeqRange(UpToInstall) \cup {"install"}

\* C15: while control is at a statement that comes before the call of the
\* installer, and in every run that ended without that call, the packages
\* in the environment's site are the ones that were there when sync was
\* called.
C15_RuntimeUntouched ==
    /\ pc \in PrecedesDispatching => installed = InitialSite
    /\ ~ Ran("install") => installed = InitialSite

\* a run that bound a final resolution different from the site, stored
\* credentials, fetched the flat indexes and then failed before the
\* installer was called: the site is as it was
C15_Witness ==
    /\ pc = "done"
    /\ Failed("SitePackages")
    /\ ~ Ran("install")
    /\ "flat_index" \in net
    /\ DOMAIN resolution # {}
    /\ DOMAIN resolution # InitialSite
    /\ installed = InitialSite

---------------------------------------------------------------------------
(* C16 *)

\* the stage a statement belongs to: 1 Validating, 2 Resolving, 3 Filtering,
\* 4 PolicySelecting, 5 Dispatching, 6 Done; 0 for the statements of sync
\* that run before do_sync is entered
StageOf(name) ==
    CASE name \in {"requires_python", "supported_environments"} -> 1
      [] name \in {"tags", "to_resolution"} -> 2
      [] name \in {"apply_no_virtual_project", "filter_resolution"} -> 3
      [] name \in {"store_credentials", "build_isolation", "hasher",
                   "flat_index", "site_packages"} -> 4
      [] name = "install" -> 5
      [] name = "return" -> 6
      [] OTHER -> 0

\* the stage of the statement that ran last
LastStage == IF trace = << >> THEN 0 ELSE StageOf(trace[Len(trace)])

\* control is inside do_sync, at a statement of a stage that is not terminal
InStage == pc # "done" /\ StageOf(pc) \in 1..5

\* the statements of do_sync whose failure does not depend on the inputs
AlwaysFallible ==
    /\ pc = "tags" => ENABLED TagsFails
    /\ pc = "to_resolution" => ENABLED ToResolutionFails
    /\ pc = "flat_index" => ENABLED FlatIndexFails
    /\ pc = "site_packages" => ENABLED SitePackagesFails
    /\ pc = "install" => ENABLED InstallFails

\* the statement control is at can run: one of its outcomes is enabled
CanStep ==
    CASE pc = "discover" -> ENABLED Discover
      [] pc = "get_or_init_environment" -> ENABLED GetOrInitEnvironment
      [] pc = "do_safe_lock" -> ENABLED DoSafeLock
      [] pc = "shared_state" -> ENABLED InitSharedState
      [] pc = "requires_python" ->
            ENABLED RequiresPythonOk \/ ENABLED RequiresPythonFails
      [] pc = "supported_environments" ->
            ENABLED SupportedEnvironmentsOk \/ ENABLED SupportedEnvironmentsFails
      [] pc = "tags" -> ENABLED Tags
      [] pc = "to_resolution" -> ENABLED ToResolution
      [] pc = "apply_no_virtual_project" -> ENABLED ApplyNoVirtualProject
      [] pc = "filter_resolution" -> ENABLED FilterResolution
      [] pc = "store_credentials" -> ENABLED StoreCredentials
      [] pc = "build_isolation" -> ENABLED SelectBuildIsolation
      [] pc = "hasher" -> ENABLED Hasher \/ ENABLED HasherFails
      [] pc = "flat_index" -> ENABLED FlatIndex
      [] pc = "site_packages" -> ENABLED SitePackages
      [] pc = "install" -> ENABLED Install
      [] pc = "return" -> ENABLED DoSyncOk
      [] OTHER -> FALSE

\* C16: the statements of a run go through the stages in the order
\* Validating, Resolving, Filtering, PolicySelecting, Dispatching, Done,
\* one stage after the other, never back and never twice; a failure ends
\* the run at the statement that failed; from every position inside a
\* stage that is not terminal the run can go on, towards a statement that
\* can fail whatever the inputs are; Done is entered only from a
\* Dispatching stage whose installer returned success; and a run that has
\* not ended can always take a step, of which there are at most as many
\* as there are statements.
C16_StageOrder ==
    /\ \A j \in 2..Len(trace) :
          StageOf(trace[j]) \in {StageOf(trace[j - 1]), StageOf(trace[j - 1]) + 1}
    /\ Cardinality(SeqRange(trace)) = Len(trace)
    /\ pc # "done" => StageOf(pc) \in {LastStage, LastStage + 1}
    /\ do_sync_result.status = "Err" =>
          /\ pc = "done"
          /\ trace[Len(trace)] = StatementOf(do_sync_result.kind)
          /\ StageOf(trace[Len(trace)]) \in 1..5
          /\ ~ Ran("return")
    /\ InStage => Index(pc) <= Index("install")
    /\ AlwaysFallible
    /\ Ran("return") =>
          /\ pc = "done"
          /\ do_sync_result = OkExit("")
          /\ handed.called
          /\ Len(trace) = Len(Order)
          /\ trace[Len(trace) - 1] = "install"
    /\ pc # "done" => CanStep
    /\ Len(trace) <= Len(Order)
    /\ pc = "done" => result.status # "running"

\* a run that went through every stage and ended in Done
C16_Witness ==
    /\ pc = "done"
    /\ Ran("return")
    /\ do_sync_result = OkExit("")
    /\ \A s \in 1..6 : \E j \in 1..Len(trace) : StageOf(trace[j]) = s

---------------------------------------------------------------------------
(* C17 *)

\* C17: the hash policy is derived in Verify mode, after both filters, and
\* covers exactly the entries of the final resolution, so an entry that a
\* filter removed is not part of it; a failure of the derivation names
\* entries of the final resolution only, and there is none when every
\* entry of the final resolution carries a hash, whatever the removed
\* entries carry; the flat index and the installer are given the policy
\* that was derived.
C17_HashPolicy ==
    /\ hasher.mode \in {"none", "Verify"}
    /\ Ran("hasher") =>
          /\ Before("apply_no_virtual_project", "hasher")
          /\ Before("filter_resolution", "hasher")
          /\ MissingHashes(resolution) = {} <=> ~ Failed("MissingHashes")
    /\ (Ran("hasher") /\ ~ Failed("MissingHashes")) =>
          /\ hasher.ok
          /\ hasher.mode = "Verify"
          /\ hasher.packages = DOMAIN resolution
          /\ \A n \in DOMAIN built :
                n \notin DOMAIN resolution => n \notin hasher.packages
    /\ Failed("MissingHashes") =>
          /\ do_sync_result.payload[1] # {}
          /\ do_sync_result.payload[1] \subseteq DOMAIN resolution
          /\ do_sync_result.payload[1] = MissingHashes(resolution)
    /\ flat_index.built => hasher.ok /\ flat_index.hasher = hasher
    /\ handed.called =>
          /\ hasher.ok
          /\ handed.hasher = hasher
          /\ handed.hasher = flat_index.hasher
          /\ handed.hasher.packages = DOMAIN handed.resolution

\* the built resolution holds an entry without a hash that a filter
\* removed; the policy was derived without a failure and has reached the
\* flat index and the installer
C17_Witness ==
    /\ handed.called
    /\ flat_index.built
    /\ MissingHashes(built) # {}
    /\ MissingHashes(resolution) = {}
    /\ hasher.packages = DOMAIN resolution
    /\ DOMAIN resolution # {}

---------------------------------------------------------------------------
(* C18 *)

\* C18: sync returns the success status only when do_safe_lock returned a
\* lock and do_sync, with the installer called, returned Ok; whatever error
\* do_sync returns is what sync returns, as an error, and the failure
\* status is returned only on the NoSolution arm, where do_sync was never
\* called.
C18_SuccessOnlyAfterSync ==
    /\ result = OkExit("Success") =>
          /\ pc = "done"
          /\ lock_result = "Ok"
          /\ do_sync_result = OkExit("")
          /\ Ran("install")
          /\ handed.called
    /\ do_sync_result.status = "Err" =>
          /\ pc = "done"
          /\ result = do_sync_result
          /\ result.status = "Err"
          /\ result.kind \in {LockedPython, LockedPlatform, "Tags", "Resolution",
                               "MissingHashes", "FlatIndex", "SitePackages",
                               "Install"}
    /\ result = OkExit("Failure") =>
          /\ lock_result = "NoSolution"
          /\ do_sync_result = NoResult
          /\ ~ Ran("requires_python")

\* the installer failed after it had changed the site, and sync returned
\* that error
C18_Witness ==
    /\ pc = "done"
    /\ lock_result = "Ok"
    /\ Failed("Install")
    /\ installed # InitialSite
    /\ result = do_sync_result
    /\ result.status = "Err"

====
